---------------------------- MODULE Spec2Model ----------------------------
(***************************************************************************)
(* Model of tonic's client transport Connection                            *)
(* (tonic/src/transport/service/connection.rs).                            *)
(*                                                                         *)
(* The Connection owns one boxed tower service: the layer stack            *)
(*   AddOrigin / UserAgent / GrpcTimeout / [ConcurrencyLimit] /            *)
(*   [RateLimit] / Reconnect(MakeSendRequestService)                       *)
(* and is driven through the tower Service protocol: poll_ready until      *)
(* Ready, then call.  MakeSendRequestService dials the connector, performs *)
(* the HTTP/2 handshake, hands the connection future to the executor and   *)
(* returns a SendRequest.                                                  *)
(*                                                                         *)
(* An Option<T> is the set {} (None) or {v} (Some(v)).                     *)
(***************************************************************************)
EXTENDS Integers, Sequences, FiniteSets, TLC

\* ------------------------------------------------------------- bounds
\* Number of requests issued through one Connection.
MaxCalls == 2
\* Number of connection attempts (connector dials) of one Connection.
MaxAttempts == 2
\* Last instant of the logical clock.
MaxTime == 2

Calls == 1..MaxCalls
Sessions == 1..MaxAttempts

\* ------------------------------------------------------------- Option<T>
None == {}
Some(v) == {v}
IsSome(o) == o # {}
Unwrap(o) == CHOOSE v \in o : TRUE
UnwrapOr(o, d) == IF o = {} THEN d ELSE CHOOSE v \in o : TRUE

\* ------------------------------------------------------------- Endpoint
\* The target address of every Endpoint of the model.
TargetUri == "target.example"

\* Endpoint configurations that differ in the options the layer stack reads;
\* the handshake options are all set.
PipelineEndpoints ==
    [ uri : {TargetUri},
      origin : {Some("origin.example")},
      user_agent : {"agent"},
      timeout : {None, Some(1)},
      concurrency_limit : {None, Some(1)},
      rate_limit : {None, Some(<<1, 2>>)},
      init_stream_window_size : {Some(7)},
      init_connection_window_size : {Some(9)},
      http2_keep_alive_interval : {Some(5)},
      http2_keep_alive_timeout : {Some(3)},
      http2_keep_alive_while_idle : {Some(TRUE)},
      http2_adaptive_window : {Some(TRUE)} ]

\* Endpoint configurations that differ in the origin and in the options of the
\* handshake; the layer stack has a deadline and no admission control.  The
\* handshake options are all unset, all set, or only one group of them is set.
PlainEndpoint ==
    [ uri |-> TargetUri,
      origin |-> None,
      user_agent |-> "agent",
      timeout |-> Some(1),
      concurrency_limit |-> None,
      rate_limit |-> None,
      init_stream_window_size |-> None,
      init_connection_window_size |-> None,
      http2_keep_alive_interval |-> None,
      http2_keep_alive_timeout |-> None,
      http2_keep_alive_while_idle |-> None,
      http2_adaptive_window |-> None ]

OptionEndpoints ==
    { [ PlainEndpoint EXCEPT
          !.origin = o,
          !.init_stream_window_size = IF base THEN Some(7) ELSE None,
          !.init_connection_window_size = IF base THEN Some(9) ELSE None,
          !.http2_keep_alive_interval = IF base THEN Some(5) ELSE None,
          !.http2_keep_alive_timeout = IF over THEN Some(3) ELSE None,
          !.http2_keep_alive_while_idle = IF over THEN Some(TRUE) ELSE None,
          !.http2_adaptive_window = IF over THEN Some(FALSE) ELSE None ] :
        o \in {None, Some("origin.example")}, base \in BOOLEAN, over \in BOOLEAN }

\* ------------------------------------------------------------- http2 Builder
\* hyper's Builder::new: every option at the library default (None).
BuilderNew ==
    [ initial_stream_window_size |-> None,
      initial_connection_window_size |-> None,
      keep_alive_interval |-> None,
      keep_alive_timeout |-> None,
      keep_alive_while_idle |-> None,
      adaptive_window |-> None ]

\* The three options Connection::new and the per-attempt handshake both set.
BuilderBase(ep) ==
    [ BuilderNew EXCEPT
        !.initial_stream_window_size = ep.init_stream_window_size,
        !.initial_connection_window_size = ep.init_connection_window_size,
        !.keep_alive_interval = ep.http2_keep_alive_interval ]

\* `settings` of Connection::new: the base options, then each of the three
\* optional overrides when the Endpoint sets it.
NewSettings(ep) ==
    LET b0 == BuilderBase(ep)
        b1 == IF IsSome(ep.http2_keep_alive_timeout)
              THEN [b0 EXCEPT !.keep_alive_timeout = ep.http2_keep_alive_timeout]
              ELSE b0
        b2 == IF IsSome(ep.http2_keep_alive_while_idle)
              THEN [b1 EXCEPT !.keep_alive_while_idle = ep.http2_keep_alive_while_idle]
              ELSE b1
        b3 == IF IsSome(ep.http2_adaptive_window)
              THEN [b2 EXCEPT !.adaptive_window = ep.http2_adaptive_window]
              ELSE b2
    IN  b3

\* The builder MakeSendRequestService::call hands to handshake(): built anew
\* from the Endpoint; the stored `settings` is not read.
HandshakeBuilderDefaults(mk) == BuilderNew

HandshakeBuilder(mk) == BuilderBase(mk.endpoint)


\* ------------------------------------------------------------- state
VARIABLES
    endpoint,        \* the Endpoint given to the constructor
    ctor,            \* the constructor call: phase, is_lazy, the error it returned
    svc,             \* Connection.inner: the layer stack and the state of its layers
    mk,              \* MakeSendRequestService, its connection future, its counters
    exec,            \* the executor: the spawned connection tasks and the debug log
    session,         \* the HTTP/2 session of each successful handshake
    connectorReady,  \* what connector.poll_ready answers
    now,             \* the logical clock
    calls            \* the requests: position, result, and what was observed

vars == <<endpoint, ctor, svc, mk, exec, session, connectorReady, now, calls>>

\* ------------------------------------------------------------- Connection::new
\* The origin handed to AddOrigin: endpoint.origin, or endpoint.uri when unset.
OriginUriOnly(ep) == ep.uri

OriginOf(ep) == UnwrapOr(ep.origin, ep.uri)

\* The timeout handed to GrpcTimeout.
TimeoutDropped(ep) == None

TimeoutOf(ep) == ep.timeout

\* The layers outer to inner: three fixed layers, the two option layers when
\* the Endpoint configures them, and Reconnect innermost.
StackNoConcurrency(ep) ==
    <<"AddOrigin", "UserAgent", "GrpcTimeout">>
        \o (IF IsSome(ep.rate_limit) THEN <<"RateLimit">> ELSE <<>>)
        \o <<"Reconnect">>

StackTimeoutInnermost(ep) ==
    <<"AddOrigin", "UserAgent">>
        \o (IF IsSome(ep.concurrency_limit) THEN <<"ConcurrencyLimit">> ELSE <<>>)
        \o (IF IsSome(ep.rate_limit) THEN <<"RateLimit">> ELSE <<>>)
        \o <<"GrpcTimeout", "Reconnect">>

Stack(ep) ==
    <<"AddOrigin", "UserAgent", "GrpcTimeout">>
        \o (IF IsSome(ep.concurrency_limit) THEN <<"ConcurrencyLimit">> ELSE <<>>)
        \o (IF IsSome(ep.rate_limit) THEN <<"RateLimit">> ELSE <<>>)
        \o <<"Reconnect">>

\* Reconnect::new(make_service, uri, is_lazy).
ReconnectNew(is_lazy) ==
    [ state |-> "Idle", handle |-> 0, has_been_connected |-> FALSE,
      error |-> "none", is_lazy |-> is_lazy ]

\* RateLimit::new: a full window that starts at construction.
RateLimitNew(ep, t) ==
    [ limited |-> FALSE, until |-> t,
      rem |-> IF IsSome(ep.rate_limit) THEN Unwrap(ep.rate_limit)[1] ELSE 0 ]

\* The service Connection::new assembles.
New(ep, is_lazy, t) ==
    [ stack |-> Stack(ep),
      origin |-> OriginOf(ep),
      user_agent |-> ep.user_agent,
      timeout |-> TimeoutOf(ep),
      limit |-> ep.concurrency_limit,
      permit |-> FALSE,
      rate_limit |-> ep.rate_limit,
      rate |-> RateLimitNew(ep, t),
      rc |-> ReconnectNew(is_lazy) ]

\* MakeSendRequestService::new(connector, endpoint, settings), with no
\* connection future yet.
MakeSendRequestServiceNew(ep, settings) ==
    [ endpoint |-> ep,
      settings |-> settings,
      fut |-> [pc |-> "none", io |-> "pending", hs |-> "pending"],
      dials |-> 0,
      handshakes |-> 0,
      used |-> <<>> ]

\* ------------------------------------------------------------- requests
\* The authority the caller put on request c: the first caller names another
\* host, the others leave it empty.
OrigAuthority(c) == IF c = 1 THEN "other.example" ELSE ""

NoCall ==
    [ pc |-> "idle", result |-> "none", trace |-> <<>>, authority |-> "",
      user_agent |-> "", wire |-> "", deadline |-> None, on |-> 0, err |-> "none",
      holds |-> FALSE, t0 |-> -1, held |-> FALSE, late |-> FALSE ]

\* The permits of the ConcurrencyLimit semaphore that are out: one per response
\* future that holds one, and the one the service itself holds.
PermitsOut(w) ==
    Cardinality({c \in Calls : w.calls[c].holds}) + (IF w.svc.permit THEN 1 ELSE 0)

\* What one poll or call works on: the mutable state and the inputs it reads.
World ==
    [ svc |-> svc, mk |-> mk, exec |-> exec, session |-> session,
      calls |-> calls, now |-> now, connector |-> connectorReady ]

\* The answer of one poll_ready: the state after it, Ready, Pending or Err (with
\* the error), and the layer that answered.
Res(w, res, err, by) == [w |-> w, res |-> res, err |-> err, by |-> by]

\* ------------------------------------------------------------- SendRequest
\* SendRequest::poll_ready: the readiness of the session's sender, which is
\* an error once the session has ended.
SendRequestPollReady(w, h) ==
    IF w.session[h] = "alive" THEN "Ready" ELSE "Err"

\* SendRequest::call: one send_request on the session; the request goes on the
\* wire as it is.
SendRequestCallResends(h, req) ==
    [req EXCEPT !.on = h, !.wire = req.authority,
                !.trace = Append(Append(@, "SendRequest"), "SendRequest")]

SendRequestCall(h, req) ==
    [req EXCEPT !.on = h, !.wire = req.authority, !.trace = Append(@, "SendRequest")]

\* ------------------------------------------------------------- MakeSendRequestService
\* MakeSendRequestService::poll_ready: the connector's readiness.
MakePollReadyAfterFailure(w) ==
    IF w.mk.fut.pc = "failed" THEN "Pending" ELSE w.connector

MakePollReady(w) == w.connector

\* MakeSendRequestService::call, up to the boxed future: the connector is
\* called once.
MakeCallReusesSession(m) ==
    [m EXCEPT !.dials = IF @ = 0 THEN 1 ELSE @,
              !.fut = [pc |-> "dial", io |-> "pending", hs |-> "pending"]]

MakeCall(m) ==
    [m EXCEPT !.dials = @ + 1,
              !.fut = [pc |-> "dial", io |-> "pending", hs |-> "pending"]]

\* Executor::execute of the connection task of session h.
Execute(w, h) ==
    [w EXCEPT !.exec.driver[h] = "running", !.session[h] = "alive"]

\* One poll of the future MakeSendRequestService::call returns: await the
\* connector's future, then the handshake, then spawn the connection task and
\* return the SendRequest.  out is Pending, Ok (with the handle), or the error.
MakeFuturePollSpawnFirst(w) ==
    LET f == w.mk.fut
        h == w.mk.dials
    IN  CASE f.pc = "dial" /\ f.io = "pending" ->
                [w |-> w, out |-> "Pending", handle |-> 0]
          [] f.pc = "dial" /\ f.io = "err" ->
                [w |-> [w EXCEPT !.mk.fut.pc = "failed"], out |-> "Connect", handle |-> 0]
          [] f.pc = "dial" /\ f.io = "ok" ->
                [w |-> [w EXCEPT !.mk.fut.pc = "handshake",
                                 !.mk.handshakes = @ + 1,
                                 !.mk.used = Append(@, HandshakeBuilder(w.mk))],
                 out |-> "Pending", handle |-> 0]
          [] f.pc = "handshake" /\ f.hs = "pending" ->
                [w |-> w, out |-> "Pending", handle |-> 0]
          [] f.pc = "handshake" /\ f.hs = "err" ->
                [w |-> [Execute(w, h) EXCEPT !.mk.fut.pc = "failed"],
                 out |-> "Handshake", handle |-> 0]
          [] f.pc = "handshake" /\ f.hs = "ok" ->
                [w |-> [Execute(w, h) EXCEPT !.mk.fut.pc = "done"],
                 out |-> "Ok", handle |-> h]

MakeFuturePollNoSpawn(w) ==
    LET f == w.mk.fut
        h == w.mk.dials
    IN  CASE f.pc = "dial" /\ f.io = "pending" ->
                [w |-> w, out |-> "Pending", handle |-> 0]
          [] f.pc = "dial" /\ f.io = "err" ->
                [w |-> [w EXCEPT !.mk.fut.pc = "failed"], out |-> "Connect", handle |-> 0]
          [] f.pc = "dial" /\ f.io = "ok" ->
                [w |-> [w EXCEPT !.mk.fut.pc = "handshake",
                                 !.mk.handshakes = @ + 1,
                                 !.mk.used = Append(@, HandshakeBuilder(w.mk))],
                 out |-> "Pending", handle |-> 0]
          [] f.pc = "handshake" /\ f.hs = "pending" ->
                [w |-> w, out |-> "Pending", handle |-> 0]
          [] f.pc = "handshake" /\ f.hs = "err" ->
                [w |-> [w EXCEPT !.mk.fut.pc = "failed"], out |-> "Handshake", handle |-> 0]
          [] f.pc = "handshake" /\ f.hs = "ok" ->
                [w |-> [w EXCEPT !.mk.fut.pc = "done"], out |-> "Ok", handle |-> h]

MakeFuturePollRehandshakes(w) ==
    LET f == w.mk.fut
        h == w.mk.dials
    IN  CASE f.pc = "dial" /\ f.io = "pending" ->
                [w |-> w, out |-> "Pending", handle |-> 0]
          [] f.pc = "dial" /\ f.io = "err" ->
                [w |-> [w EXCEPT !.mk.fut.pc = "failed"], out |-> "Connect", handle |-> 0]
          [] f.pc = "dial" /\ f.io = "ok" ->
                [w |-> [w EXCEPT !.mk.fut.pc = "handshake",
                                 !.mk.handshakes = @ + 1,
                                 !.mk.used = Append(@, HandshakeBuilder(w.mk))],
                 out |-> "Pending", handle |-> 0]
          [] f.pc = "handshake" /\ f.hs = "pending" ->
                [w |-> w, out |-> "Pending", handle |-> 0]
          [] f.pc = "handshake" /\ f.hs = "err" /\ w.mk.handshakes <= w.mk.dials ->
                [w |-> [w EXCEPT !.mk.fut.hs = "pending",
                                 !.mk.handshakes = @ + 1,
                                 !.mk.used = Append(@, HandshakeBuilder(w.mk))],
                 out |-> "Pending", handle |-> 0]
          [] f.pc = "handshake" /\ f.hs = "err" /\ w.mk.handshakes > w.mk.dials ->
                [w |-> [w EXCEPT !.mk.fut.pc = "failed"], out |-> "Handshake", handle |-> 0]
          [] f.pc = "handshake" /\ f.hs = "ok" ->
                [w |-> [Execute(w, h) EXCEPT !.mk.fut.pc = "done"],
                 out |-> "Ok", handle |-> h]

MakeFuturePoll(w) ==
    LET f == w.mk.fut
        h == w.mk.dials
    IN  CASE f.pc = "dial" /\ f.io = "pending" ->
                [w |-> w, out |-> "Pending", handle |-> 0]
          [] f.pc = "dial" /\ f.io = "err" ->
                [w |-> [w EXCEPT !.mk.fut.pc = "failed"], out |-> "Connect", handle |-> 0]
          [] f.pc = "dial" /\ f.io = "ok" ->
                [w |-> [w EXCEPT !.mk.fut.pc = "handshake",
                                 !.mk.handshakes = @ + 1,
                                 !.mk.used = Append(@, HandshakeBuilder(w.mk))],
                 out |-> "Pending", handle |-> 0]
          [] f.pc = "handshake" /\ f.hs = "pending" ->
                [w |-> w, out |-> "Pending", handle |-> 0]
          [] f.pc = "handshake" /\ f.hs = "err" ->
                [w |-> [w EXCEPT !.mk.fut.pc = "failed"], out |-> "Handshake", handle |-> 0]
          [] f.pc = "handshake" /\ f.hs = "ok" ->
                [w |-> [Execute(w, h) EXCEPT !.mk.fut.pc = "done"],
                 out |-> "Ok", handle |-> h]

\* ------------------------------------------------------------- Reconnect
\* Reconnect::poll_ready.  A stored error makes the service ready at once (the
\* next call returns it).  Otherwise the state machine runs until it is ready
\* or has to wait: Idle starts a connection once the factory is ready,
\* Connecting polls the connection future, Connected polls the SendRequest and
\* goes back to Idle when its session has ended.  The first failure of a
\* Reconnect that is not lazy is returned from poll_ready; every other failure
\* is stored.  res is Stuck where the attempts of the model are used up.
RECURSIVE ReconnectLoop(_)
ReconnectLoop(w) ==
    LET rc == w.svc.rc
    IN  CASE rc.state = "Idle" ->
                IF MakePollReady(w) = "Pending"
                THEN Res(w, "Pending", "none", "Reconnect")
                ELSE IF w.mk.dials >= MaxAttempts
                THEN Res(w, "Stuck", "none", "Reconnect")
                ELSE ReconnectLoop([w EXCEPT !.svc.rc.state = "Connecting",
                                             !.mk = MakeCall(w.mk)])
          [] rc.state = "Connecting" ->
                LET r == MakeFuturePoll(w)
                IN  CASE r.out = "Pending" ->
                            Res(r.w, "Pending", "none", "Reconnect")
                      [] r.out = "Ok" ->
                            ReconnectLoop([r.w EXCEPT
                                !.svc.rc.state = "Connected",
                                !.svc.rc.handle = r.handle,
                                !.svc.rc.has_been_connected = TRUE])
                      [] OTHER ->
                            IF ~(rc.has_been_connected \/ rc.is_lazy)
                            THEN Res([r.w EXCEPT !.svc.rc.state = "Idle"],
                                     "Err", r.out, "Reconnect")
                            ELSE Res([r.w EXCEPT !.svc.rc.state = "Idle",
                                                 !.svc.rc.error = r.out],
                                     "Ready", "none", "Reconnect")
          [] rc.state = "Connected" ->
                IF SendRequestPollReady(w, rc.handle) = "Ready"
                THEN Res(w, "Ready", "none", "Reconnect")
                ELSE ReconnectLoop([w EXCEPT !.svc.rc.state = "Idle",
                                             !.svc.rc.handle = 0])

ReconnectPollReady(w) ==
    IF w.svc.rc.error # "none"
    THEN Res(w, "Ready", "none", "Reconnect")
    ELSE ReconnectLoop(w)

\* Reconnect::call: a stored error is taken and becomes the call's result;
\* otherwise the request goes to the current SendRequest.
ReconnectCall(w, req) ==
    LET rc == w.svc.rc
    IN  IF rc.error # "none"
        THEN [w |-> [w EXCEPT !.svc.rc.error = "none"],
              req |-> [req EXCEPT !.err = rc.error]]
        ELSE [w |-> w, req |-> SendRequestCall(rc.handle, req)]

\* ------------------------------------------------------------- the layers
\* AddOrigin::call: the request's scheme and authority become the origin's.
AddOriginCall(w, req) == [req EXCEPT !.authority = w.svc.origin]

\* UserAgent::call: the user-agent header is set.
UserAgentCall(w, req) == [req EXCEPT !.user_agent = w.svc.user_agent]

\* GrpcTimeout::call: the sleep of the response future is created when the
\* request is called, so the deadline counts from the call.
GrpcTimeoutCall(w, req) ==
    [req EXCEPT !.deadline = IF IsSome(w.svc.timeout)
                             THEN Some(w.now + Unwrap(w.svc.timeout))
                             ELSE None]

\* ConcurrencyLimit::poll_ready: the service acquires a permit of the
\* semaphore unless it holds one; with none free it is Pending.
ConcurrencyLimitAcquire(w) ==
    IF w.svc.permit THEN [ok |-> TRUE, w |-> w]
    ELSE IF PermitsOut(w) < Unwrap(w.svc.limit)
    THEN [ok |-> TRUE, w |-> [w EXCEPT !.svc.permit = TRUE]]
    ELSE [ok |-> FALSE, w |-> w]

\* ConcurrencyLimit::call: the permit moves into the response future, which
\* gives it back when it completes or is dropped.
ConcurrencyLimitCall(w, req) ==
    [w |-> [w EXCEPT !.svc.permit = FALSE], req |-> [req EXCEPT !.holds = TRUE]]

\* RateLimit::poll_ready: Pending while limited and the window has not ended;
\* a limited service whose window has ended starts a full window.
RateLimitReady(w) ==
    LET r == w.svc.rate
        cfg == Unwrap(w.svc.rate_limit)
    IN  IF ~r.limited THEN [ok |-> TRUE, w |-> w]
        ELSE IF w.now < r.until THEN [ok |-> FALSE, w |-> w]
        ELSE [ok |-> TRUE,
              w |-> [w EXCEPT !.svc.rate = [limited |-> FALSE,
                                            until |-> w.now + cfg[2],
                                            rem |-> cfg[1]]]]

\* RateLimit::call: a window that has ended is renewed; the call takes one of
\* the window's requests, and the last one of a window limits the service
\* until the window ends.
RateLimitCall(w, req) ==
    LET r == w.svc.rate
        cfg == Unwrap(w.svc.rate_limit)
        r1 == IF w.now >= r.until
              THEN [r EXCEPT !.until = w.now + cfg[2], !.rem = cfg[1]]
              ELSE r
        r2 == IF r1.rem > 1
              THEN [r1 EXCEPT !.rem = @ - 1]
              ELSE [r1 EXCEPT !.limited = TRUE, !.rem = 0]
    IN  [w |-> [w EXCEPT !.svc.rate = r2], req |-> req]

\* poll_ready of layer i of the stack: the admission layers answer Pending
\* themselves or pass the poll inwards, the other layers pass it inwards.
RECURSIVE LayerPollReady(_, _)
LayerPollReady(w, i) ==
    LET l == w.svc.stack[i]
    IN  CASE l = "ConcurrencyLimit" ->
                LET a == ConcurrencyLimitAcquire(w)
                IN  IF a.ok THEN LayerPollReady(a.w, i + 1)
                    ELSE Res(w, "Pending", "none", l)
          [] l = "RateLimit" ->
                LET a == RateLimitReady(w)
                IN  IF a.ok THEN LayerPollReady(a.w, i + 1)
                    ELSE Res(w, "Pending", "none", l)
          [] l = "Reconnect" -> ReconnectPollReady(w)
          [] OTHER -> LayerPollReady(w, i + 1)

\* call of layer i of the stack, on a service that answered Ready: each layer
\* does its work on the request and calls the next one.
RECURSIVE LayerCall(_, _, _)
LayerCall(w, i, req) ==
    LET l == w.svc.stack[i]
        r == [req EXCEPT !.trace = Append(@, l)]
    IN  CASE l = "AddOrigin" -> LayerCall(w, i + 1, AddOriginCall(w, r))
          [] l = "UserAgent" -> LayerCall(w, i + 1, UserAgentCall(w, r))
          [] l = "GrpcTimeout" -> LayerCall(w, i + 1, GrpcTimeoutCall(w, r))
          [] l = "ConcurrencyLimit" ->
                LET a == ConcurrencyLimitCall(w, r) IN LayerCall(a.w, i + 1, a.req)
          [] l = "RateLimit" ->
                LET a == RateLimitCall(w, r) IN LayerCall(a.w, i + 1, a.req)
          [] l = "Reconnect" -> ReconnectCall(w, r)

\* ------------------------------------------------------------- Connection
\* Connection::poll_ready: the boxed service's poll_ready.
PollReadyWraps(w) ==
    LET r == LayerPollReady(w, 1)
    IN  IF r.res = "Err" THEN [r EXCEPT !.err = "Wrapped"] ELSE r

PollReady(w) == LayerPollReady(w, 1)

\* Connection::call: the boxed service's call.
Call(w, req) == LayerCall(w, 1, req)

\* Load::load: a constant, whatever the Connection has been through.
LoadInFlight(conn) == Cardinality({c \in Calls : conn.calls[c].pc = "inflight"})

Load(conn) == 0

\* ------------------------------------------------------------- constructors
\* The service before a constructor has run.
NoService ==
    [ stack |-> <<>>, origin |-> "", user_agent |-> "", timeout |-> None,
      limit |-> None, permit |-> FALSE, rate_limit |-> None,
      rate |-> [limited |-> FALSE, until |-> 0, rem |-> 0],
      rc |-> ReconnectNew(TRUE) ]

\* Connection::lazy: new(connector, endpoint, true), returned as it is.
LazyThenReady == [kind |-> "lazy", phase |-> "connecting", is_lazy |-> TRUE, err |-> "none"]

LazyCtor == [kind |-> "lazy", phase |-> "ok", is_lazy |-> TRUE, err |-> "none"]

\* Connection::connect: new(connector, endpoint, false), then ready_oneshot.
ConnectAsLazy == [kind |-> "connect", phase |-> "connecting", is_lazy |-> TRUE, err |-> "none"]

ConnectCtor == [kind |-> "connect", phase |-> "connecting", is_lazy |-> FALSE, err |-> "none"]

Apply(w) ==
    /\ svc' = w.svc
    /\ mk' = w.mk
    /\ exec' = w.exec
    /\ session' = w.session

Init ==
    /\ endpoint \in PipelineEndpoints
    /\ ctor = [kind |-> "none", phase |-> "new", is_lazy |-> FALSE, err |-> "none"]
    /\ svc = NoService
    /\ mk = MakeSendRequestServiceNew(endpoint, BuilderNew)
    /\ exec = [driver |-> [h \in Sessions |-> "none"], log |-> 0]
    /\ session = [h \in Sessions |-> "none"]
    /\ connectorReady = "Ready"
    /\ now = 0
    /\ calls = [c \in Calls |-> NoCall]

InitOptions ==
    /\ endpoint \in OptionEndpoints
    /\ ctor = [kind |-> "none", phase |-> "new", is_lazy |-> FALSE, err |-> "none"]
    /\ svc = NoService
    /\ mk = MakeSendRequestServiceNew(endpoint, BuilderNew)
    /\ exec = [driver |-> [h \in Sessions |-> "none"], log |-> 0]
    /\ session = [h \in Sessions |-> "none"]
    /\ connectorReady = "Ready"
    /\ now = 0
    /\ calls = [c \in Calls |-> NoCall]

Lazy ==
    /\ ctor.phase = "new"
    /\ ctor' = LazyCtor
    /\ svc' = New(endpoint, ctor'.is_lazy, now)
    /\ mk' = MakeSendRequestServiceNew(endpoint, NewSettings(endpoint))
    /\ UNCHANGED <<endpoint, exec, session, connectorReady, now, calls>>

Connect ==
    /\ ctor.phase = "new"
    /\ ctor' = ConnectCtor
    /\ svc' = New(endpoint, ctor'.is_lazy, now)
    /\ mk' = MakeSendRequestServiceNew(endpoint, NewSettings(endpoint))
    /\ UNCHANGED <<endpoint, exec, session, connectorReady, now, calls>>

\* One poll of ready_oneshot: Ready resolves the constructor to the Connection,
\* an error resolves it to the error.
ReadyOneshotPollReturnsEarly ==
    /\ ctor.phase = "connecting"
    /\ LET r == PollReady(World)
       IN  /\ r.res # "Stuck"
           /\ Apply(r.w)
           /\ ctor' = CASE r.res = "Err" -> [ctor EXCEPT !.phase = "err", !.err = r.err]
                        [] OTHER -> [ctor EXCEPT !.phase = "ok"]
    /\ UNCHANGED <<endpoint, connectorReady, now, calls>>

ReadyOneshotPoll ==
    /\ ctor.phase = "connecting"
    /\ LET r == PollReady(World)
       IN  /\ r.res # "Stuck"
           /\ Apply(r.w)
           /\ ctor' = CASE r.res = "Ready" -> [ctor EXCEPT !.phase = "ok"]
                        [] r.res = "Err" -> [ctor EXCEPT !.phase = "err", !.err = r.err]
                        [] OTHER -> ctor
    /\ UNCHANGED <<endpoint, connectorReady, now, calls>>

\* ------------------------------------------------------------- callers
AdmissionLayers == {"ConcurrencyLimit", "RateLimit"}

WaitEvent(l) == IF l = "ConcurrencyLimit" THEN "ConcurrencyLimit.wait" ELSE "RateLimit.wait"

InTrace(t, e) == \E i \in 1..Len(t) : t[i] = e

\* The owner of the Connection polls it ready for request c.  The requests go
\* through the Connection one after the other: it is borrowed mutably.
CallerPoll(c) ==
    /\ ctor.phase = "ok"
    /\ calls[c].pc \in {"idle", "polling"}
    /\ \A d \in Calls : d < c => calls[d].pc \in {"inflight", "done"}
    /\ LET r == PollReady(World)
           waits == r.res = "Pending" /\ r.by \in AdmissionLayers
       IN  /\ r.res # "Stuck"
           /\ Apply(r.w)
           /\ calls' = [calls EXCEPT ![c] =
                 [@ EXCEPT
                    !.pc = CASE r.res = "Ready" -> "ready"
                             [] r.res = "Err" -> "done"
                             [] OTHER -> "polling",
                    !.result = IF r.res = "Err" THEN r.err ELSE @,
                    !.t0 = IF r.by = "Reconnect" THEN -1 ELSE IF @ = -1 THEN now ELSE @,
                    !.held = IF r.by = "Reconnect" THEN FALSE ELSE TRUE,
                    !.late = IF r.by = "Reconnect" /\ calls[c].held
                             THEN IsSome(svc.timeout) /\ now > calls[c].t0 + Unwrap(svc.timeout)
                             ELSE @,
                    !.trace = IF waits /\ ~InTrace(@, WaitEvent(r.by))
                              THEN Append(@, WaitEvent(r.by)) ELSE @]]
    /\ UNCHANGED <<endpoint, ctor, connectorReady, now>>

\* The owner calls the Connection with request c.
IssueCall(c) ==
    /\ calls[c].pc = "ready"
    /\ LET a == Call(World, [calls[c] EXCEPT !.authority = OrigAuthority(c)])
       IN  /\ Apply(a.w)
           /\ calls' = [calls EXCEPT ![c] = [a.req EXCEPT !.pc = "inflight"]]
    /\ UNCHANGED <<endpoint, ctor, connectorReady, now>>

\* The response future of request c completes and is dropped: its permit goes
\* back, its sleep and its hold on the session are gone.
Finish(c, result) ==
    calls' = [calls EXCEPT ![c] = [@ EXCEPT !.pc = "done", !.result = result,
                                            !.holds = FALSE, !.deadline = None,
                                            !.on = 0, !.err = "none"]]

\* send_request resolves to the response.
Respond(c) ==
    /\ calls[c].pc = "inflight"
    /\ calls[c].err = "none"
    /\ session[calls[c].on] = "alive"
    /\ Finish(c, "Ok")
    /\ UNCHANGED <<endpoint, ctor, svc, mk, exec, session, connectorReady, now>>

\* send_request resolves to the session's error, mapped into crate::Error.
TransportError(c) ==
    /\ calls[c].pc = "inflight"
    /\ calls[c].err = "none"
    /\ session[calls[c].on] # "alive"
    /\ Finish(c, "Transport")
    /\ UNCHANGED <<endpoint, ctor, svc, mk, exec, session, connectorReady, now>>

\* The error future of Reconnect::call resolves to the stored error.
ConnectError(c) ==
    /\ calls[c].pc = "inflight"
    /\ calls[c].err # "none"
    /\ Finish(c, calls[c].err)
    /\ UNCHANGED <<endpoint, ctor, svc, mk, exec, session, connectorReady, now>>

\* The sleep of GrpcTimeout's response future has elapsed.  The response
\* future polls the inner future first, so an inner future that is ready from
\* the start (Reconnect's error future) always wins over the sleep.
DeadlineExceeded(c) ==
    /\ calls[c].pc = "inflight"
    /\ calls[c].err = "none"
    /\ IsSome(calls[c].deadline)
    /\ now >= Unwrap(calls[c].deadline)
    /\ Finish(c, "DeadlineExceeded")
    /\ UNCHANGED <<endpoint, ctor, svc, mk, exec, session, connectorReady, now>>

\* ------------------------------------------------------------- environment
\* The connector's future resolves: the stream, or an error.
DialResolves(ok) ==
    /\ mk.fut.pc = "dial"
    /\ mk.fut.io = "pending"
    /\ mk' = [mk EXCEPT !.fut.io = IF ok THEN "ok" ELSE "err"]
    /\ UNCHANGED <<endpoint, ctor, svc, exec, session, connectorReady, now, calls>>

\* hyper's handshake resolves: the sender and the connection, or an error.
HandshakeResolves(ok) ==
    /\ mk.fut.pc = "handshake"
    /\ mk.fut.hs = "pending"
    /\ mk' = [mk EXCEPT !.fut.hs = IF ok THEN "ok" ELSE "err"]
    /\ UNCHANGED <<endpoint, ctor, svc, exec, session, connectorReady, now, calls>>

\* Session h ends: closed by the peer, or failed.
SessionEnds(h, how) ==
    /\ session[h] = "alive"
    /\ session' = [session EXCEPT ![h] = how]
    /\ UNCHANGED <<endpoint, ctor, svc, mk, exec, connectorReady, now, calls>>

\* The spawned task of session h (conn.await) completes once the session has
\* ended; an error is written to the debug log.
ConnectionTaskLeaks(h) ==
    /\ exec.driver[h] = "running"
    /\ session[h] \in {"closed", "failed"}
    /\ exec' = [exec EXCEPT !.driver[h] = "done",
                            !.log = IF session[h] = "failed" THEN @ + 1 ELSE @]
    /\ calls' = [c \in Calls |->
                    IF calls[c].pc = "inflight" /\ calls[c].on = h /\ session[h] = "failed"
                    THEN [calls[c] EXCEPT !.pc = "done", !.result = "Driver", !.holds = FALSE]
                    ELSE calls[c]]
    /\ UNCHANGED <<endpoint, ctor, svc, mk, session, connectorReady, now>>

ConnectionTask(h) ==
    /\ exec.driver[h] = "running"
    /\ session[h] \in {"closed", "failed"}
    /\ exec' = [exec EXCEPT !.driver[h] = "done",
                            !.log = IF session[h] = "failed" THEN @ + 1 ELSE @]
    /\ UNCHANGED <<endpoint, ctor, svc, mk, session, connectorReady, now, calls>>

\* The connector's readiness changes; only an idle Reconnect reads it.
ConnectorReadiness ==
    /\ ctor.phase \in {"connecting", "ok"}
    /\ svc.rc.state = "Idle"
    /\ mk.dials < MaxAttempts
    /\ connectorReady' = IF connectorReady = "Ready" THEN "Pending" ELSE "Ready"
    /\ UNCHANGED <<endpoint, ctor, svc, mk, exec, session, now, calls>>

\* Somebody is waiting for the clock: a response future whose sleep has not
\* elapsed, a RateLimit window that has not ended, or a request that waits for
\* admission while a timeout is configured.
ClockWatched ==
    \/ \E c \in Calls : /\ calls[c].pc = "inflight"
                         /\ IsSome(calls[c].deadline)
                         /\ now < Unwrap(calls[c].deadline)
    \/ IsSome(svc.rate_limit) /\ now < svc.rate.until
    \/ \E c \in Calls : calls[c].held /\ IsSome(svc.timeout)

\* Time passes.  The clock is read only by GrpcTimeout and RateLimit, and only
\* differences of instants matter, so the clock stands while nobody waits for it.
Tick ==
    /\ ctor.phase \in {"connecting", "ok"}
    /\ ClockWatched
    /\ now < MaxTime
    /\ now' = now + 1
    /\ UNCHANGED <<endpoint, ctor, svc, mk, exec, session, connectorReady, calls>>

Next ==
    \/ Lazy
    \/ Connect
    \/ ReadyOneshotPoll
    \/ \E c \in Calls : CallerPoll(c)
    \/ \E c \in Calls : IssueCall(c)
    \/ \E c \in Calls : Respond(c)
    \/ \E c \in Calls : TransportError(c)
    \/ \E c \in Calls : ConnectError(c)
    \/ \E c \in Calls : DeadlineExceeded(c)
    \/ \E ok \in BOOLEAN : DialResolves(ok)
    \/ \E ok \in BOOLEAN : HandshakeResolves(ok)
    \/ \E h \in Sessions, how \in {"closed", "failed"} : SessionEnds(h, how)
    \/ \E h \in Sessions : ConnectionTask(h)
    \/ ConnectorReadiness
    \/ Tick

Spec == Init /\ [][Next]_vars

\* The owner drops request c at a suspension point: while it waits to be
\* admitted or for the connection (its readiness future), or in flight (its
\* response future).  Dropping the response future drops the send on the
\* session, the sleep and the permit; the connection attempt belongs to
\* Reconnect and the connection task to the executor, so both stay.
DropCallAbortsSession(c) ==
    /\ ctor.phase = "ok"
    /\ calls[c].pc \in {"polling", "inflight"}
    /\ calls' = [calls EXCEPT ![c] = [@ EXCEPT !.pc = "done", !.result = "Dropped",
                                               !.holds = FALSE, !.deadline = None,
                                               !.on = 0, !.err = "none",
                                               !.t0 = -1, !.held = FALSE]]
    /\ session' = [h \in Sessions |->
                      IF h = calls[c].on /\ session[h] = "alive" THEN "closed"
                      ELSE session[h]]
    /\ UNCHANGED <<endpoint, ctor, svc, mk, exec, connectorReady, now>>

DropCall(c) ==
    /\ ctor.phase = "ok"
    /\ calls[c].pc \in {"polling", "inflight"}
    /\ calls' = [calls EXCEPT ![c] = [@ EXCEPT !.pc = "done", !.result = "Dropped",
                                               !.holds = FALSE, !.deadline = None,
                                               !.on = 0, !.err = "none",
                                               !.t0 = -1, !.held = FALSE]]
    /\ UNCHANGED <<endpoint, ctor, svc, mk, exec, session, connectorReady, now>>

NextCancel ==
    \/ Next
    \/ \E c \in Calls : DropCall(c)

\* Cancellation is looked at with a deadline configured, with and without a
\* concurrency limit, and no rate limit.
CancelEndpoints ==
    {ep \in PipelineEndpoints : IsSome(ep.timeout) /\ ~IsSome(ep.rate_limit)}

InitCancel ==
    /\ endpoint \in CancelEndpoints
    /\ ctor = [kind |-> "none", phase |-> "new", is_lazy |-> FALSE, err |-> "none"]
    /\ svc = NoService
    /\ mk = MakeSendRequestServiceNew(endpoint, BuilderNew)
    /\ exec = [driver |-> [h \in Sessions |-> "none"], log |-> 0]
    /\ session = [h \in Sessions |-> "none"]
    /\ connectorReady = "Ready"
    /\ now = 0
    /\ calls = [c \in Calls |-> NoCall]

SpecCancel == InitCancel /\ [][NextCancel]_vars

SpecOptions == InitOptions /\ [][Next]_vars

\* ============================================================= properties
NoCallYet == \A c \in Calls : calls[c].pc = "idle"

NoIO ==
    /\ mk.dials = 0
    /\ mk.handshakes = 0
    /\ mk.fut.pc = "none"
    /\ \A h \in Sessions : exec.driver[h] = "none" /\ session[h] = "none"

\* C1: lazy() never fails and does no I/O.  A Connection built by lazy() is
\* returned at once and without an error, and as long as no caller has used
\* it the connector has not been dialed, no handshake was made and no
\* connection task was spawned: the first dial happens while the owner drives
\* the first request (its readiness poll and call).
LazyDoesNoIO ==
    ctor.kind = "lazy" =>
        /\ ctor.phase = "ok"
        /\ ctor.err = "none"
        /\ NoCallYet => NoIO /\ svc.rc.state = "Idle"
        /\ mk.dials > 0 => calls[1].pc # "idle"

\* C1 witness: a lazily built Connection that nobody has used, while the
\* environment has already moved (the connector's readiness changed).
LazyIdleWitness ==
    /\ ctor.kind = "lazy"
    /\ ctor.phase = "ok"
    /\ NoCallYet
    /\ connectorReady = "Pending"
    /\ NoIO

CallerResults == {"none", "Ok", "Transport", "Connect", "Handshake", "DeadlineExceeded"}

FailedTasks == {h \in Sessions : exec.driver[h] = "done" /\ session[h] = "failed"}

\* C3: the outcome of the connection task reaches no caller.  No request ever
\* resolves to a driver error; the step in which a connection task ends
\* changes no request and only adds to the debug log when the task failed;
\* and a request in flight on a session whose task has ended in an error
\* resolves by its own future only: to a Transport error of its send, or, with
\* a timeout configured, to the deadline of its own sleep.
DriverOutcomeStaysInLog ==
    /\ [](\A c \in Calls : calls[c].result \in CallerResults)
    /\ [](exec.log = Cardinality(FailedTasks))
    /\ [][ (exec'.driver # exec.driver /\ mk' = mk) => calls' = calls ]_vars
    /\ [][ \A c \in Calls :
            ( /\ calls[c].pc = "inflight"
              /\ calls[c].err = "none"
              /\ calls[c].on \in FailedTasks
              /\ calls'[c].pc = "done" )
            => calls'[c].result \in
                  ({"Transport"} \cup (IF IsSome(calls[c].deadline)
                                       THEN {"DeadlineExceeded"} ELSE {})) ]_vars

\* C3 witness: a request is in flight on a session whose connection task has
\* already ended with an error.
DriverFailedInFlightWitness ==
    \E c \in Calls :
        /\ calls[c].pc = "inflight"
        /\ calls[c].err = "none"
        /\ calls[c].on \in FailedTasks

\* ------------------------------------------------------------- layer order
\* Request c has been handed to Connection::call.
Issued(c) == calls[c].pc \in {"inflight", "done"}

Pos(t, e) == CHOOSE i \in 1..Len(t) : t[i] = e

Count(t, e) == Cardinality({i \in 1..Len(t) : t[i] = e})

\* a and b both happened to the request, a first.
Before(t, a, b) == InTrace(t, a) /\ InTrace(t, b) /\ Pos(t, a) < Pos(t, b)

WaitEvents == {"ConcurrencyLimit.wait", "RateLimit.wait"}

\* The order in which the call of a request passes the layers.
CallOrder(c) ==
    LET t == calls[c].trace
    IN  /\ Before(t, "AddOrigin", "UserAgent")
        /\ Before(t, "UserAgent", "GrpcTimeout")
        /\ Before(t, "GrpcTimeout", "Reconnect")
        /\ \A l \in {"AddOrigin", "UserAgent", "GrpcTimeout", "Reconnect"} : Count(t, l) = 1
        /\ IF IsSome(endpoint.concurrency_limit)
           THEN /\ Before(t, "GrpcTimeout", "ConcurrencyLimit")
                /\ Before(t, "ConcurrencyLimit", "Reconnect")
                /\ Count(t, "ConcurrencyLimit") = 1
           ELSE ~InTrace(t, "ConcurrencyLimit")
        /\ IF IsSome(endpoint.rate_limit)
           THEN /\ Before(t, "GrpcTimeout", "RateLimit")
                /\ Before(t, "RateLimit", "Reconnect")
                /\ Count(t, "RateLimit") = 1
           ELSE ~InTrace(t, "RateLimit")
        /\ InTrace(t, "ConcurrencyLimit") /\ InTrace(t, "RateLimit")
              => Before(t, "ConcurrencyLimit", "RateLimit")
        /\ InTrace(t, "SendRequest") => Before(t, "Reconnect", "SendRequest")

PastLimit == {c \in Calls : calls[c].pc \in {"ready", "inflight"}}

\* C5: with concurrency_limit = N never more than N requests are past the
\* ConcurrencyLimit layer, and a request is only past it while the permits
\* handed out (to response futures and to the service) number at most N; with
\* N = 1 the second request is not admitted while the first is in flight.
AtMostLimitInFlight ==
    IsSome(endpoint.concurrency_limit) =>
        /\ Cardinality(PastLimit) <= Unwrap(endpoint.concurrency_limit)
        /\ Cardinality({c \in Calls : calls[c].pc = "inflight"})
              + (IF svc.permit THEN 1 ELSE 0) <= Unwrap(endpoint.concurrency_limit)
        /\ (Unwrap(endpoint.concurrency_limit) = 1 /\ calls[1].pc = "inflight")
              => \A c \in Calls : c # 1 => calls[c].pc \in {"idle", "polling"}

\* C5 witness: with a limit of one and a lazily built Connection, the first
\* request is in flight and the second waits for a permit.
SecondWaitsWitness ==
    /\ endpoint.concurrency_limit = Some(1)
    /\ ctor.kind = "lazy"
    /\ calls[1].pc = "inflight"
    /\ calls[2].pc = "polling"
    /\ calls[2].held

Surfaced(e) ==
    \/ ctor.err = e
    \/ svc.rc.error = e
    \/ \E c \in Calls : calls[c].err = e \/ calls[c].result = e

\* C7: when the connector's future has failed, the attempt has resolved to a
\* Connect error, made no handshake and spawned no task, no SendRequest is
\* current, and the factory's readiness is the connector's readiness.
FailedDialIsConnectError ==
    (mk.fut.pc = "failed" /\ mk.fut.io = "err") =>
        /\ Surfaced("Connect")
        /\ mk.fut.hs = "pending"
        /\ mk.handshakes < mk.dials
        /\ Len(mk.used) = mk.handshakes
        /\ exec.driver[mk.dials] = "none"
        /\ session[mk.dials] = "none"
        /\ svc.rc.state = "Idle"
        /\ MakePollReady(World) = connectorReady

\* C7 witness: the second attempt's dial has failed after a first session had
\* been established, and the connector is ready again.
FailedRedialWitness ==
    /\ mk.fut.pc = "failed"
    /\ mk.fut.io = "err"
    /\ mk.dials = 2
    /\ mk.handshakes = 1
    /\ connectorReady = "Ready"

\* C8: when the dial has succeeded and the handshake has failed, the attempt
\* has resolved to a Handshake error, no SendRequest is current and no task
\* was spawned for the attempt.
FailedHandshakeSpawnsNothing ==
    (mk.fut.pc = "failed" /\ mk.fut.io = "ok") =>
        /\ mk.fut.hs = "err"
        /\ Surfaced("Handshake")
        /\ exec.driver[mk.dials] = "none"
        /\ session[mk.dials] = "none"
        /\ svc.rc.state = "Idle"
        /\ svc.rc.handle = 0

\* C8 witness: the handshake of a reconnect attempt has failed and the error
\* has become the result of a request.
FailedHandshakeWitness ==
    /\ mk.fut.pc = "failed"
    /\ mk.fut.hs = "err"
    /\ mk.dials = 2
    /\ \E c \in Calls : calls[c].result = "Handshake"

\* ------------------------------------------------------------- origin
\* C9: every request that went on the wire carries the configured origin as
\* its authority, or the target address when no origin is configured,
\* whatever authority the caller gave it.
WireAuthorityIsOrigin ==
    \A c \in Calls : InTrace(calls[c].trace, "SendRequest") =>
        calls[c].wire = (IF endpoint.origin = None
                         THEN endpoint.uri
                         ELSE Unwrap(endpoint.origin))

\* C9 witness: a request whose caller named another host went on the wire
\* with the configured origin.
RewrittenAuthorityWitness ==
    \E c \in Calls :
        /\ InTrace(calls[c].trace, "SendRequest")
        /\ OrigAuthority(c) = "other.example"
        /\ endpoint.origin = Some("origin.example")
        /\ calls[c].wire = "origin.example"

\* ------------------------------------------------------------- handshake options
\* C10 as stated: every handshake uses each keepalive option of the Endpoint
\* that is set, at its configured value.
HandshakesUseKeepaliveOptions ==
    \A i \in 1..Len(mk.used) :
        LET b == mk.used[i]
        IN  /\ IsSome(endpoint.http2_keep_alive_interval)
                  => b.keep_alive_interval = endpoint.http2_keep_alive_interval
            /\ IsSome(endpoint.http2_keep_alive_timeout)
                  => b.keep_alive_timeout = endpoint.http2_keep_alive_timeout
            /\ IsSome(endpoint.http2_keep_alive_while_idle)
                  => b.keep_alive_while_idle = endpoint.http2_keep_alive_while_idle
            /\ IsSome(endpoint.http2_adaptive_window)
                  => b.adaptive_window = endpoint.http2_adaptive_window

\* ------------------------------------------------------------- window sizes
\* C11: the builder of every handshake carries the configured stream window
\* and the configured connection window, never the library default in their
\* place; the factory's Endpoint and its stored settings are those it was
\* constructed with, whatever attempts were made.
HandshakesCarryWindows ==
    /\ \A i \in 1..Len(mk.used) :
          /\ IsSome(endpoint.init_stream_window_size)
                => mk.used[i].initial_stream_window_size = endpoint.init_stream_window_size
          /\ IsSome(endpoint.init_connection_window_size)
                => mk.used[i].initial_connection_window_size
                       = endpoint.init_connection_window_size
    /\ mk.endpoint = endpoint
    /\ ctor.phase # "new" => mk.settings = NewSettings(endpoint)

\* C11 witness: with both windows configured, a second attempt has made its
\* handshake after the first session was established.
SecondHandshakeWindowsWitness ==
    /\ endpoint.init_stream_window_size = Some(7)
    /\ endpoint.init_connection_window_size = Some(9)
    /\ Len(mk.used) = 2
    /\ mk.used[2].initial_stream_window_size = Some(7)
    /\ mk.used[2].initial_connection_window_size = Some(9)
    /\ exec.driver[1] # "none"

\* ------------------------------------------------------------- load
\* A Connection of Endpoint ep that was just built and never used.
FreshConnection(ep) ==
    [ svc |-> New(ep, TRUE, 0),
      mk |-> MakeSendRequestServiceNew(ep, NewSettings(ep)),
      exec |-> [driver |-> [h \in Sessions |-> "none"], log |-> 0],
      session |-> [h \in Sessions |-> "none"],
      calls |-> [c \in Calls |-> NoCall],
      now |-> 0,
      connector |-> "Ready" ]

\* C12: load() is the same value for every Connection in every state: the
\* load of the Connection, whatever requests, attempts, failures and
\* reconnects it went through, is the load of a Connection of any Endpoint
\* that was never used.
LoadIsConstant ==
    ctor.phase \in {"connecting", "ok", "err"} =>
        \A ep \in PipelineEndpoints : Load(World) = Load(FreshConnection(ep))

\* C12 witness: a Connection that has reconnected, with one request answered
\* and another one in flight.
LoadAfterHistoryWitness ==
    /\ ctor.phase = "ok"
    /\ mk.dials = 2
    /\ exec.driver[1] = "done"
    /\ \E c \in Calls : calls[c].pc = "done"
    /\ \E c \in Calls : calls[c].pc = "inflight" /\ calls[c].on = 2

\* ------------------------------------------------------------- connection task
\* The sessions whose connection task was handed to the executor.
Spawned == {h \in Sessions : exec.driver[h] # "none"}

\* C13: one connection task per successful handshake.  A task is spawned in
\* exactly the steps in which an attempt whose handshake succeeded is polled
\* and returns the SendRequest, one task per such step and for that attempt, so the
\* number of tasks spawned is the number of successful handshakes; a
\* SendRequest that was returned has its task spawned; and a task stops
\* running only after its own session has ended, and is never spawned again.
DriverSpawnedOncePerHandshake ==
    /\ [](/\ Cardinality(Spawned) <= mk.handshakes
          /\ svc.rc.handle # 0 => svc.rc.handle \in Spawned
          /\ mk.fut.pc = "done" => mk.dials \in Spawned)
    /\ [][ LET succeeds == /\ mk.fut.pc = "handshake"
                           /\ mk.fut.hs = "ok"
                           /\ mk'.fut # mk.fut
               spawnedNext == {h \in Sessions : exec'.driver[h] # "none"}
           IN  /\ succeeds => /\ mk'.fut.pc = "done"
                              /\ mk'.dials = mk.dials
                              /\ mk.dials \notin Spawned
                              /\ exec'.driver[mk.dials] = "running"
                              /\ spawnedNext = Spawned \cup {mk.dials}
               /\ ~succeeds => spawnedNext = Spawned ]_vars
    /\ [][ \A h \in Sessions :
             /\ (exec.driver[h] = "running" /\ exec'.driver[h] # "running")
                   => session[h] \in {"closed", "failed"} /\ exec'.driver[h] = "done"
             /\ exec.driver[h] = "done" => exec'.driver[h] = "done" ]_vars

\* C13 witness: two handshakes have succeeded; the task of the first session
\* has ended with it and the task of the second is running.
TwoDriversWitness ==
    /\ mk.handshakes = 2
    /\ exec.driver[1] = "done"
    /\ exec.driver[2] = "running"
    /\ svc.rc.handle = 2

\* ------------------------------------------------------------- one send per call
\* C14: a request is sent at most once.  No request has more than one
\* send_request in its trace; a request resolves to a Transport error only
\* from flight, after its one send, in a step that sends nothing again and
\* changes no other request, no layer and no connection attempt; and a request
\* that has resolved is never touched again.
OneSendPerCall ==
    /\ [](\A c \in Calls : Count(calls[c].trace, "SendRequest") <= 1)
    /\ [][ \A c \in Calls :
             (calls[c].result # "Transport" /\ calls'[c].result = "Transport") =>
                /\ calls[c].pc = "inflight"
                /\ Count(calls[c].trace, "SendRequest") = 1
                /\ calls'[c].trace = calls[c].trace
                /\ calls'[c].pc = "done"
                /\ \A d \in Calls : d # c => calls'[d] = calls[d]
                /\ svc' = svc
                /\ mk' = mk ]_vars
    /\ [][ \A c \in Calls : calls[c].pc = "done" => calls'[c] = calls[c] ]_vars

\* C14 witness: two requests were sent on the same session; the send of the
\* first has failed with a Transport error and the second is still in flight.
OneFailedOtherInFlightWitness ==
    /\ calls[1].result = "Transport"
    /\ Count(calls[1].trace, "SendRequest") = 1
    /\ calls[2].pc = "inflight"
    /\ calls[2].on = 1
    /\ mk.dials = 1

\* ------------------------------------------------------------- the current handle
\* The SendRequest handles a new request can be sent on.
CurrentHandles == IF svc.rc.handle = 0 THEN {} ELSE {svc.rc.handle}

\* C15: Reconnect holds at most one SendRequest, and every request that is
\* issued is sent on it.  The handle changes only in a readiness poll of the
\* stack (by a caller or by connect()); a handle becomes current only in the
\* step in which a connection attempt returns it, and it is the handle of a
\* session that did not exist before that attempt: a handle that was current
\* before, whose session has ended, never comes back.
AtMostOneCurrentHandle ==
    /\ [](/\ Cardinality(CurrentHandles) <= 1
          /\ svc.rc.handle \in {0, mk.dials}
          /\ svc.rc.handle # 0 <=> svc.rc.state = "Connected")
    /\ [][ \A c \in Calls :
             (calls[c].pc = "ready" /\ calls'[c].pc = "inflight") =>
                calls'[c].on \in {0} \cup CurrentHandles ]_vars
    /\ [][ svc'.rc.handle # svc.rc.handle =>
             /\ ctor.phase \in {"connecting", "ok"}
             /\ \/ ctor.phase = "connecting"
                \/ \E c \in Calls : calls[c].pc \in {"idle", "polling"}
                                     /\ calls'[c] # calls[c]
             /\ svc'.rc.handle # 0 =>
                   /\ svc.rc.handle = 0
                   /\ mk.fut.pc = "handshake"
                   /\ mk'.fut.pc = "done"
                   /\ svc'.rc.handle = mk'.dials
                   /\ session[svc'.rc.handle] = "none"
                   /\ exec.driver[svc'.rc.handle] = "none"
                   /\ session'[svc'.rc.handle] = "alive" ]_vars

\* C15 witness: two requests are in flight on the current handle, which is
\* the handle of the second session; the first session has ended.
SharedSecondHandleWitness ==
    /\ svc.rc.handle = 2
    /\ session[1] \in {"closed", "failed"}
    /\ calls[1].pc = "inflight" /\ calls[1].on = 2
    /\ calls[2].pc = "inflight" /\ calls[2].on = 2

\* ------------------------------------------------------------- cancellation
\* C16: dropping a request abandons that request only.  The step in which a
\* request is dropped ends it and gives back what its future held (its permit,
\* its sleep, its send on the session), and changes nothing else: no other
\* request, no layer, not the connection attempt in progress, not the current
\* handle, no session and no connection task.  Whatever was dropped, a request
\* in flight on a live session can still get its response, and the permits
\* that are out never exceed the limit.
CancellationIsLocal ==
    /\ [][ \A c \in Calls :
             (calls[c].result # "Dropped" /\ calls'[c].result = "Dropped") =>
                /\ calls[c].pc \in {"polling", "inflight"}
                /\ calls'[c].pc = "done"
                /\ ~calls'[c].holds
                /\ calls'[c].on = 0
                /\ calls'[c].deadline = None
                /\ \A d \in Calls : d # c => calls'[d] = calls[d]
                /\ svc' = svc
                /\ mk' = mk
                /\ session' = session
                /\ exec' = exec ]_vars
    /\ [](\A d \in Calls :
             ( /\ calls[d].pc = "inflight"
               /\ calls[d].err = "none"
               /\ calls[d].on # 0
               /\ session[calls[d].on] = "alive" ) => ENABLED Respond(d))
    /\ [](IsSome(svc.limit) => PermitsOut(World) <= Unwrap(svc.limit))

\* C16 witness: the second request was dropped after it had been sent, while
\* the first is still in flight on the session and the connection task runs.
DroppedBesideInFlightWitness ==
    /\ calls[2].result = "Dropped"
    /\ InTrace(calls[2].trace, "SendRequest")
    /\ calls[1].pc = "inflight"
    /\ calls[1].on # 0
    /\ session[calls[1].on] = "alive"
    /\ exec.driver[calls[1].on] = "running"

\* ------------------------------------------------------------- the facade
\* C17: Connection::poll_ready and Connection::call are the stack's.  In every
\* state the answer of Connection::poll_ready (Ready, Pending or the error,
\* and the state it leaves) is the answer of the outermost layer, and
\* Connection::call of a request is the outermost layer's call of it;
\* connect() resolves to the error the stack answered, as it is, and to the
\* Connection only when the stack answered Ready; and the request in flight
\* after a call is the one the stack made of it.
FacadeAddsNothing ==
    /\ [](ctor.phase \in {"connecting", "ok"} =>
             PollReady(World) = LayerPollReady(World, 1))
    /\ [](\A c \in Calls : calls[c].pc = "ready" =>
             LET req == [calls[c] EXCEPT !.authority = OrigAuthority(c)]
             IN  Call(World, req) = LayerCall(World, 1, req))
    /\ [][ (ctor.phase = "connecting" /\ ctor'.phase # "connecting") =>
             LET r == LayerPollReady(World, 1)
             IN  /\ ctor'.phase = "err" <=> r.res = "Err"
                 /\ ctor'.phase = "ok" <=> r.res = "Ready"
                 /\ ctor'.err = r.err
                 /\ svc' = r.w.svc ]_vars
    /\ [][ \A c \in Calls :
             (calls[c].pc = "ready" /\ calls'[c].pc = "inflight") =>
                LET a == LayerCall(World, 1, [calls[c] EXCEPT !.authority = OrigAuthority(c)])
                IN  /\ calls'[c] = [a.req EXCEPT !.pc = "inflight"]
                    /\ svc' = a.w.svc ]_vars

\* C17 witness: connect() is pending and the stack is about to answer its
\* poll with the Connect error of the failed dial.
StackAboutToFailWitness ==
    /\ ctor.kind = "connect"
    /\ ctor.phase = "connecting"
    /\ mk.fut.io = "err"
    /\ PollReady(World).res = "Err"
    /\ PollReady(World).err = "Connect"

\* ------------------------------------------------------------- one attempt per call
\* The steps one connection attempt can take.
AttemptSteps ==
    { <<"dial", "handshake">>, <<"dial", "failed">>,
      <<"handshake", "done">>, <<"handshake", "failed">> }

\* C18: one call of the factory is one dial and at most one handshake, in the
\* order dial, handshake, spawn, return.  The connector is called once per
\* call of the factory and only to start a new attempt; a handshake is started
\* only by an attempt whose dial succeeded and that has made none; the task of
\* an attempt is spawned only when it returns the handle; and an attempt that
\* has failed or returned does nothing more: the next dial is the next call.
SubFactoryOneAttemptInOrder ==
    /\ [](/\ mk.handshakes <= mk.dials
          /\ Len(mk.used) = mk.handshakes
          /\ mk.fut.pc = "dial" => mk.fut.hs = "pending"
          /\ mk.fut.pc = "handshake" => mk.fut.io = "ok"
          /\ mk.fut.pc = "done" =>
                mk.fut.io = "ok" /\ mk.fut.hs = "ok" /\ exec.driver[mk.dials] # "none"
          /\ mk.fut.pc = "failed" =>
                \/ mk.fut.io = "err" /\ mk.fut.hs = "pending"
                \/ mk.fut.io = "ok" /\ mk.fut.hs = "err"
          /\ mk.fut.pc \in {"dial", "handshake", "failed"} =>
                exec.driver[mk.dials] = "none")
    /\ [][ /\ mk'.dials \in {mk.dials, mk.dials + 1}
           /\ mk'.handshakes \in {mk.handshakes, mk.handshakes + 1}
           /\ mk'.dials = mk.dials + 1 =>
                 /\ mk.fut.pc \in {"none", "done", "failed"}
                 /\ mk'.fut = [pc |-> "dial", io |-> "pending", hs |-> "pending"]
                 /\ mk'.handshakes = mk.handshakes
           /\ mk'.handshakes = mk.handshakes + 1 =>
                 /\ mk.fut.pc = "dial"
                 /\ mk.fut.io = "ok"
                 /\ mk'.fut.pc = "handshake"
                 /\ mk'.dials = mk.dials
           /\ (mk'.dials = mk.dials /\ mk'.fut.pc # mk.fut.pc) =>
                 <<mk.fut.pc, mk'.fut.pc>> \in AttemptSteps
           /\ (mk'.dials = mk.dials /\ mk.fut.pc \in {"failed", "done"}) =>
                 mk'.fut = mk.fut /\ mk'.handshakes = mk.handshakes ]_vars

\* C18 witness: the handshake of the first attempt failed, and a second call
\* of the factory has dialed, made its handshake and returned the handle.
SecondAttemptAfterFailureWitness ==
    /\ mk.dials = 2
    /\ mk.handshakes = 2
    /\ mk.fut.pc = "done"
    /\ exec.driver[1] = "none"
    /\ exec.driver[2] = "running"

\* ------------------------------------------------------------- connect() returns
\* C19: connect() returns a Connection that is connected.  In the step in
\* which connect() resolves to the Connection, the attempt's dial and
\* handshake have succeeded, the connection task of its session is with the
\* executor and running, and Reconnect holds the SendRequest of that session;
\* and a Connection that connect() returned has had its first task spawned.
ConnectOkHasSession ==
    /\ [][ (ctor.kind = "connect" /\ ctor.phase = "connecting" /\ ctor'.phase = "ok") =>
             /\ mk'.fut = [pc |-> "done", io |-> "ok", hs |-> "ok"]
             /\ mk'.handshakes >= 1
             /\ exec'.driver[mk'.dials] = "running"
             /\ session'[mk'.dials] = "alive"
             /\ svc'.rc.state = "Connected"
             /\ svc'.rc.handle = mk'.dials
             /\ svc'.rc.has_been_connected ]_vars
    /\ []((ctor.kind = "connect" /\ ctor.phase = "ok") =>
             /\ exec.driver[1] # "none"
             /\ session[1] # "none"
             /\ svc.rc.has_been_connected)

\* C19 witness: connect() has returned the Connection, no request was made
\* yet, and the task of the session is running.
ConnectReturnedWitness ==
    /\ ctor.kind = "connect"
    /\ ctor.phase = "ok"
    /\ NoCallYet
    /\ svc.rc.handle = 1
    /\ exec.driver[1] = "running"
    /\ session[1] = "alive"

=============================================================================
